---------------------------- MODULE Spec2Model ----------------------------
(***************************************************************************)
(* A model of the two MoodBoard command-line tools:                        *)
(*   tools/a11y-check/index.py   (the Accessibility Classifier)            *)
(*   tools/hig-advisor/index.py  (the Guideline Matcher)                   *)
(* Texts are sequences of one-character strings, so that lowercasing,      *)
(* substring search, regular-expression search, trimming, splitting and    *)
(* replacing are computed character by character as Python computes them.  *)
(* The bullet character U+2022 is written "BULLET".                        *)
(***************************************************************************)
EXTENDS Naturals, Sequences, FiniteSets

VARIABLES
    tool,             \* which program runs: "a11y" or "hig"
    pc,               \* position in main()
    content,          \* the text under analysis (SourceText)
    issues,           \* a11y: check_accessibility's first result
    warnings,         \* a11y: check_accessibility's second result
    dirExists,        \* hig: os.path.exists(guides_dir)
    listing,          \* hig: the directory's files, in filesystem-listing order
    guides,           \* hig: the dict load_guides returns, in insertion order
    matched,          \* hig: analyze_content's matched_guides
    recommendations,  \* hig: the list analyze_content returns
    stdout,           \* what was printed to standard output
    stderr,           \* what was printed to the error stream
    exitCode          \* the process's exit code ("none" while running)

vars == <<tool, pc, content, issues, warnings, dirExists, listing, guides,
          matched, recommendations, stdout, stderr, exitCode>>

(***************************************************************************)
(* Bounds of the model.                                                    *)
(***************************************************************************)
\* the number of whitespace characters put where a pattern allows \s*
MaxWs == 1
\* the number of leading bullet lines a generated guide document may have
MaxBullets == 3

(***************************************************************************)
(* Characters and strings.                                                 *)
(***************************************************************************)
UpperChars == {"A","B","C","D","E","F","G","H","I","J","K","L","M",
               "N","O","P","Q","R","S","T","U","V","W","X","Y","Z"}
LowerChars == {"a","b","c","d","e","f","g","h","i","j","k","l","m",
               "n","o","p","q","r","s","t","u","v","w","x","y","z"}
DigitChars == {"0","1","2","3","4","5","6","7","8","9"}

\* str.isdigit() on one character
IsDigit(c) == c \in DigitChars

\* what \s matches, and what str.strip() removes
IsSpace(c) == c \in {" ", "\t", "\n", "\r", "\f"}

\* what \w matches
IsWordChar(c) == c \in UpperChars \cup LowerChars \cup DigitChars \cup {"_"}

LowerChar(c) ==
    CASE c = "A" -> "a" [] c = "B" -> "b" [] c = "C" -> "c" [] c = "D" -> "d"
      [] c = "E" -> "e" [] c = "F" -> "f" [] c = "G" -> "g" [] c = "H" -> "h"
      [] c = "I" -> "i" [] c = "J" -> "j" [] c = "K" -> "k" [] c = "L" -> "l"
      [] c = "M" -> "m" [] c = "N" -> "n" [] c = "O" -> "o" [] c = "P" -> "p"
      [] c = "Q" -> "q" [] c = "R" -> "r" [] c = "S" -> "s" [] c = "T" -> "t"
      [] c = "U" -> "u" [] c = "V" -> "v" [] c = "W" -> "w" [] c = "X" -> "x"
      [] c = "Y" -> "y" [] c = "Z" -> "z" [] OTHER -> c

\* str.lower()
Lower(s) == [i \in 1..Len(s) |-> LowerChar(s[i])]

\* the literal lit occurs in s at position i
LitAt(s, i, lit) ==
    /\ i + Len(lit) - 1 <= Len(s)
    /\ \A j \in 1..Len(lit) : s[i + j - 1] = lit[j]

\* Python's  lit in s
Contains(s, lit) == \E i \in 1..(Len(s) + 1 - Len(lit)) : LitAt(s, i, lit)

\* str.startswith(lit)
StartsWith(s, lit) == LitAt(s, 1, lit)

\* str.endswith(lit)
EndsWith(s, lit) == Len(lit) <= Len(s) /\ LitAt(s, Len(s) - Len(lit) + 1, lit)

RECURSIVE Cat(_)
\* the concatenation of a sequence of strings
Cat(ss) == IF ss = <<>> THEN <<>> ELSE Head(ss) \o Cat(Tail(ss))

\* n copies of the character c
Rep(c, n) == [i \in 1..n |-> c]

\* list[:n]
Take(s, n) == SubSeq(s, 1, IF Len(s) < n THEN Len(s) ELSE n)

(***************************************************************************)
(* Regular expressions: a pattern is a sequence of elements, each a        *)
(* literal, \s* or \b.  Ends(s, i, re, k) is the set of positions where a  *)
(* match of re[k..] that starts at position i of s may end.                *)
(***************************************************************************)
Lit(chars) == [t |-> "lit", c |-> chars]
WsStar == [t |-> "ws", c |-> <<>>]
WordB == [t |-> "b", c |-> <<>>]

\* \b at position i: exactly one of s[i-1], s[i] is a word character
WordBoundary(s, i) ==
    (i > 1 /\ IsWordChar(s[i - 1])) # (i <= Len(s) /\ IsWordChar(s[i]))

\* the positions \s* may reach from position i
SkipSpaces(s, i) == {k \in i..(Len(s) + 1) : \A j \in i..(k - 1) : IsSpace(s[j])}

RECURSIVE Ends(_, _, _, _)
Ends(s, i, re, k) ==
    IF k > Len(re) THEN {i}
    ELSE LET e == re[k] IN
         CASE e.t = "lit" -> IF LitAt(s, i, e.c)
                             THEN Ends(s, i + Len(e.c), re, k + 1) ELSE {}
           [] e.t = "ws"  -> UNION {Ends(s, j, re, k + 1) : j \in SkipSpaces(s, i)}
           [] e.t = "b"   -> IF WordBoundary(s, i)
                             THEN Ends(s, i, re, k + 1) ELSE {}

\* bool(re.search(re, s))
Search(s, re) == \E i \in 1..(Len(s) + 1) : Ends(s, i, re, 1) # {}

Max(S) == CHOOSE m \in S : \A n \in S : n <= m

RECURSIVE FindAllFrom(_, _, _)
\* re.findall(re, s): the non-overlapping matches, left to right (their starts)
FindAllFrom(s, re, i) ==
    IF i > Len(s) + 1 THEN <<>>
    ELSE LET e == Ends(s, i, re, 1) IN
         IF e = {} THEN FindAllFrom(s, re, i + 1)
         ELSE <<i>> \o FindAllFrom(s, re, IF Max(e) > i THEN Max(e) ELSE i + 1)

FindAll(s, re) == FindAllFrom(s, re, 1)


(***************************************************************************)
(* The strings the two programs search for.                                *)
(***************************************************************************)
sParen == <<"(">>
sImage == <<"I","m","a","g","e">>
sDotAccessibilityLabel == <<".","a","c","c","e","s","s","i","b","i","l","i","t","y","L","a","b","e","l">>
sDotAccessibility == <<".","a","c","c","e","s","s","i","b","i","l","i","t","y">>
sLabelColon == <<"l","a","b","e","l",":">>
sButton == <<"B","u","t","t","o","n">>
sAccessibility == <<"a","c","c","e","s","s","i","b","i","l","i","t","y">>
sText == <<"T","e","x","t">>
sLabel == <<"L","a","b","e","l">>
sDotOnTapGesture == <<".","o","n","T","a","p","G","e","s","t","u","r","e">>
sDotGestureParen == <<".","g","e","s","t","u","r","e","(">>
sDotAccessibilityActionParen == <<".","a","c","c","e","s","s","i","b","i","l","i","t","y","A","c","t","i","o","n","(">>
sColorColon == <<"c","o","l","o","r",":">>
sForegroundColor == <<"f","o","r","e","g","r","o","u","n","d","C","o","l","o","r">>
sBackgroundColor == <<"b","a","c","k","g","r","o","u","n","d","(","C","o","l","o","r">>
sSF == <<"S","F">>
sSymbol == <<"S","y","m","b","o","l">>
sCircle == <<"C","i","r","c","l","e">>
sRectangle == <<"R","e","c","t","a","n","g","l","e">>
sShape == <<"s","h","a","p","e">>

(***************************************************************************)
(* tools/a11y-check/index.py: check_accessibility.                         *)
(* A Finding is modelled by the name of its check.                         *)
(***************************************************************************)
UnlabeledImages == "unlabeled images"
UnlabeledButtons == "unlabeled buttons"
NoTextualContent == "no textual content"
InaccessibleGestures == "inaccessible gestures"
ColorOnlyRisk == "color-only risk"

\* r'Image\s*\('
image_pattern == <<Lit(sImage), WsStar, Lit(sParen)>>

\* r'Button\s*\('
button_pattern == <<Lit(sButton), WsStar, Lit(sParen)>>

\* a variant that forgets the .accessibility(label:) form
HasImageLabels_OnlyModifier(c) ==
    Search(c, <<Lit(sDotAccessibilityLabel), WsStar, Lit(sParen)>>)

\* re.search(r'\.accessibilityLabel\s*\(') or re.search(r'\.accessibility\s*\(\s*label:')
HasImageLabels(c) ==
    \/ Search(c, <<Lit(sDotAccessibilityLabel), WsStar, Lit(sParen)>>)
    \/ Search(c, <<Lit(sDotAccessibility), WsStar, Lit(sParen), WsStar, Lit(sLabelColon)>>)

\* 'accessibility' in content.lower()
HasAccessibility(c) == Contains(Lower(c), sAccessibility)

\* re.search(r'\bText\s*\(')
HasText(c) == Search(c, <<WordB, Lit(sText), WsStar, Lit(sParen)>>)

\* re.search(r'\bLabel\s*\(')
HasLabel(c) == Search(c, <<WordB, Lit(sLabel), WsStar, Lit(sParen)>>)

\* the length a text must exceed for check 3 to apply
ViewLength == 100

\* a variant whose comparison is off by one
IsLongText_Inclusive(c) == Len(c) >= ViewLength

\* len(content) > 100
IsLongText(c) == Len(c) > ViewLength

\* re.search(r'\.onTapGesture|\.gesture\(')
HasGesture(c) == Search(c, <<Lit(sDotOnTapGesture)>>) \/ Search(c, <<Lit(sDotGestureParen)>>)

\* re.search(r'\.accessibilityAction\(')
HasAccessibilityAction(c) == Search(c, <<Lit(sDotAccessibilityActionParen)>>)

\* any(indicator in content for indicator in color_only_indicators)
HasColorIndicator(c) ==
    \E ind \in {sColorColon, sForegroundColor, sBackgroundColor} : Contains(c, ind)

\* re.search(r'\b(Image|SF|Symbol|Circle|Rectangle|shape)\b')
HasShapesOrIcons(c) ==
    \E w \in {sImage, sSF, sSymbol, sCircle, sRectangle, sShape} :
        Search(c, <<WordB, Lit(w), WordB>>)

\* list.append(x) when cond holds
AppendIf(list, cond, x) == IF cond THEN Append(list, x) ELSE list

\* a variant that runs the gesture check before the button check
CheckAccessibility_GestureFirst(c) ==
    LET images == FindAll(c, image_pattern)
        issues1 == AppendIf(<<>>, images # <<>> /\ ~HasImageLabels(c), UnlabeledImages)
        warnings4 == AppendIf(<<>>, HasGesture(c) /\ ~HasAccessibilityAction(c),
                              InaccessibleGestures)
        buttons == FindAll(c, button_pattern)
        warnings2 == AppendIf(warnings4, buttons # <<>> /\ ~HasAccessibility(c),
                              UnlabeledButtons)
        issues3 == AppendIf(issues1, ~HasText(c) /\ ~HasLabel(c) /\ IsLongText(c),
                            NoTextualContent)
        warnings5 == AppendIf(warnings2, HasColorIndicator(c) /\ ~HasShapesOrIcons(c),
                              ColorOnlyRisk)
    IN  [issues |-> issues3, warnings |-> warnings5]

CheckAccessibility(c) ==
    LET images == FindAll(c, image_pattern)
        issues1 == AppendIf(<<>>, images # <<>> /\ ~HasImageLabels(c), UnlabeledImages)
        buttons == FindAll(c, button_pattern)
        warnings2 == AppendIf(<<>>, buttons # <<>> /\ ~HasAccessibility(c),
                              UnlabeledButtons)
        issues3 == AppendIf(issues1, ~HasText(c) /\ ~HasLabel(c) /\ IsLongText(c),
                            NoTextualContent)
        warnings4 == AppendIf(warnings2, HasGesture(c) /\ ~HasAccessibilityAction(c),
                              InaccessibleGestures)
        warnings5 == AppendIf(warnings4, HasColorIndicator(c) /\ ~HasShapesOrIcons(c),
                              ColorOnlyRisk)
    IN  [issues |-> issues3, warnings |-> warnings5]

(***************************************************************************)
(* The texts given to the Accessibility Classifier: one choice for each    *)
(* construct the checks look for, concatenated, and padded to the lengths  *)
(* around the threshold of check 3.                                        *)
(***************************************************************************)
\* a run of MaxWs whitespace characters (spaces and line breaks)
WsRun == [i \in 1..MaxWs |-> IF i % 2 = 1 THEN " " ELSE "\n"]

ImageChoices ==
    { <<>>,
      sImage \o sParen,
      <<"U","I">> \o sImage \o sParen,
      sImage \o WsRun \o sParen \o sImage \o sParen,
      sImage \o <<";">> }

LabelChoices ==
    { <<>>,
      sDotAccessibilityLabel \o WsRun \o sParen,
      sDotAccessibility \o WsRun \o sParen \o WsRun \o sLabelColon,
      <<".","A">> \o Tail(sAccessibility) \o sParen }

ButtonChoices == { <<>>, sButton \o WsRun \o sParen }

TextChoices ==
    { <<>>,
      sText \o WsRun \o sParen,
      <<"m","y">> \o sText \o sParen,
      sLabel \o sParen }

GestureChoices ==
    { <<>>,
      sDotOnTapGesture,
      sDotGestureParen,
      sDotOnTapGesture \o sDotAccessibilityActionParen }

ColorChoices ==
    { <<>>,
      sForegroundColor,
      sBackgroundColor \o <<" ">> \o sCircle \o <<" ">> }

\* s, followed by as many "/" as it takes to reach length n
PadTo(s, n) == IF Len(s) < n THEN s \o Rep("/", n - Len(s)) ELSE s

A11yInputs ==
    { PadTo(Cat(<<i, l, b, t, g, k>>), n) :
        i \in ImageChoices, l \in LabelChoices, b \in ButtonChoices,
        t \in TextChoices, g \in GestureChoices, k \in ColorChoices,
        n \in {0, ViewLength, ViewLength + 1} }

(***************************************************************************)
(* tools/a11y-check/index.py: main.                                        *)
(***************************************************************************)
HigIdle ==
    /\ dirExists = FALSE
    /\ listing = <<>>
    /\ guides = <<>>
    /\ matched = {}
    /\ recommendations = <<>>

InitA11y ==
    /\ tool = "a11y"
    /\ pc = "start"
    /\ content = <<>>
    /\ issues = <<>>
    /\ warnings = <<>>
    /\ HigIdle
    /\ stdout = <<>>
    /\ stderr = <<>>
    /\ exitCode = "none"

\* content = f.read()  or  content = sys.stdin.read()
A11yReadInput ==
    /\ tool = "a11y" /\ pc = "start"
    /\ \E c \in A11yInputs : content' = c
    /\ pc' = "read"
    /\ UNCHANGED <<tool, issues, warnings, dirExists, listing, guides,
                   matched, recommendations, stdout, stderr, exitCode>>

\* the named file cannot be read: a diagnostic and sys.exit(1)
A11yReadError ==
    /\ tool = "a11y" /\ pc = "start"
    /\ stderr' = Append(stderr, "Error reading file")
    /\ exitCode' = 1
    /\ pc' = "exit"
    /\ UNCHANGED <<tool, content, issues, warnings, dirExists, listing, guides,
                   matched, recommendations, stdout>>

\* the banner, then issues, warnings = check_accessibility(content)
A11yScan ==
    /\ tool = "a11y" /\ pc = "read"
    /\ stdout' = stdout \o <<"A11y Quick Scan", "=====">>
    /\ LET r == CheckAccessibility(content)
       IN  issues' = r.issues /\ warnings' = r.warnings
    /\ pc' = "checked"
    /\ UNCHANGED <<tool, content, dirExists, listing, guides, matched,
                   recommendations, stderr, exitCode>>

\* what main prints for the two lists
A11yReportLines(is, ws) ==
    IF is = <<>> /\ ws = <<>>
    THEN <<"No obvious accessibility issues detected!", "Manual checks still recommended">>
    ELSE (IF is # <<>> THEN <<"ISSUES (high priority):">> \o is ELSE <<>>)
         \o (IF ws # <<>> THEN <<"WARNINGS (should review):">> \o ws ELSE <<>>)
         \o <<"=====", "Learn more">>

A11yReport ==
    /\ tool = "a11y" /\ pc = "checked"
    /\ stdout' = stdout \o A11yReportLines(issues, warnings)
    /\ exitCode' = 0
    /\ pc' = "exit"
    /\ UNCHANGED <<tool, content, issues, warnings, dirExists, listing, guides,
                   matched, recommendations, stderr>>

NextA11y == A11yReadInput \/ A11yReadError \/ A11yScan \/ A11yReport

SpecA11y == InitA11y /\ [][NextA11y]_vars

(***************************************************************************)
(* tools/hig-advisor/index.py: load_guides.                                *)
(* A file of the guides directory is [name, text, readable]; the dict of   *)
(* guides is a sequence of [name, text] in insertion order, names unique.  *)
(***************************************************************************)
sDotMd == <<".","m","d">>
sNavigation == <<"n","a","v","i","g","a","t","i","o","n">>
sNavigationlink == <<"n","a","v","i","g","a","t","i","o","n","l","i","n","k">>
sNavigationstack == <<"n","a","v","i","g","a","t","i","o","n","s","t","a","c","k">>
sTabview == <<"t","a","b","v","i","e","w">>
sButtonLower == <<"b","u","t","t","o","n">>
sAction == <<"a","c","t","i","o","n">>
sTap == <<"t","a","p">>
sGesture == <<"g","e","s","t","u","r","e">>
sOnclick == <<"o","n","c","l","i","c","k">>
sActions == <<"a","c","t","i","o","n","s">>

RECURSIVE RemoveFrom(_, _, _)
RemoveFrom(s, pat, i) ==
    IF i > Len(s) THEN <<>>
    ELSE IF LitAt(s, i, pat) THEN RemoveFrom(s, pat, i + Len(pat))
    ELSE <<s[i]>> \o RemoveFrom(s, pat, i + 1)

\* str.replace(pat, ""): every occurrence of pat, left to right, removed
Remove(s, pat) == RemoveFrom(s, pat, 1)

\* glob.glob(os.path.join(guides_dir, "*.md")): names that end in .md and are
\* not hidden
GlobMatches(filename) == EndsWith(filename, sDotMd) /\ Head(filename) # "."

\* guide_name = filename.replace(".md", "")
GuideName(filename) == Remove(filename, sDotMd)

HasGuide(g, name) == \E i \in DOMAIN g : g[i].name = name

GuideText(g, name) == g[CHOOSE i \in DOMAIN g : g[i].name = name].text

\* guides[name] = text
DictSet(g, name, text) ==
    IF HasGuide(g, name)
    THEN [i \in DOMAIN g |-> IF g[i].name = name THEN [name |-> name, text |-> text]
                                                 ELSE g[i]]
    ELSE Append(g, [name |-> name, text |-> text])

RECURSIVE LoadFrom(_, _, _)
LoadFrom(files, g, w) ==
    IF files = <<>> THEN [guides |-> g, warnings |-> w]
    ELSE LET f == Head(files) IN
         IF ~GlobMatches(f.name) THEN LoadFrom(Tail(files), g, w)
         ELSE IF f.readable
         THEN LoadFrom(Tail(files), DictSet(g, GuideName(f.name), f.text), w)
         ELSE LoadFrom(Tail(files), g, Append(w, "Warning: Could not load"))

\* load_guides(guides_dir): the dict, and the warnings printed on the way
LoadGuides(files) == LoadFrom(files, <<>>, <<>>)

(***************************************************************************)
(* tools/hig-advisor/index.py: analyze_content.                            *)
(* A recommendation entry is [kind, text].                                 *)
(***************************************************************************)
Notice == [kind |-> "notice", text |-> <<>>]
Header(name) == [kind |-> "header", text |-> name]
Point(p) == [kind |-> "point", text |-> p]

keywords_map ==
    << [guide |-> sNavigation,
        keywords |-> {sNavigation, sNavigationlink, sNavigationstack, sTabview}],
       [guide |-> sActions,
        keywords |-> {sButtonLower, sAction, sTap, sGesture, sOnclick}] >>

\* a variant that forgets content.lower()
KeywordMatches_CaseSensitive(c) ==
    { keywords_map[i].guide :
        i \in {j \in DOMAIN keywords_map :
                 \E k \in keywords_map[j].keywords : Contains(c, k)} }

\* the guides whose keywords occur in content.lower()
KeywordMatches(c) ==
    { keywords_map[i].guide :
        i \in {j \in DOMAIN keywords_map :
                 \E k \in keywords_map[j].keywords : Contains(Lower(c), k)} }

\* a variant whose general pack is the navigation guide alone
MatchedGuides_NavigationOnly(c) ==
    IF KeywordMatches(c) = {} THEN {sNavigation} ELSE KeywordMatches(c)

\* matched_guides, after the general-pack fallback
MatchedGuides(c) ==
    IF KeywordMatches(c) = {} THEN {sNavigation, sActions} ELSE KeywordMatches(c)

RECURSIVE Split(_)
\* str.split('\n')
Split(s) ==
    IF \E i \in 1..Len(s) : s[i] = "\n"
    THEN LET i == CHOOSE j \in 1..Len(s) :
                      s[j] = "\n" /\ \A k \in 1..(j - 1) : s[k] # "\n"
         IN  <<SubSeq(s, 1, i - 1)>> \o Split(SubSeq(s, i + 1, Len(s)))
    ELSE <<s>>

\* str.strip()
Strip(s) ==
    LET keep == {i \in 1..Len(s) : ~IsSpace(s[i])}
    IN  IF keep = {} THEN <<>>
        ELSE SubSeq(s, CHOOSE i \in keep : \A j \in keep : i <= j, Max(keep))

\* stripped.startswith(('-', '*', BULLET)) or (len(stripped) > 2 and
\* stripped[0].isdigit() and stripped[1] in '.):')
IsKeyPoint(stripped) ==
    \/ \E b \in {"-", "*", "BULLET"} : StartsWith(stripped, <<b>>)
    \/ /\ Len(stripped) > 2
       /\ IsDigit(stripped[1])
       /\ stripped[2] \in {".", ")", ":"}

\* points: the stripped lines of the document that are key points
KeyPoints(doc) ==
    LET lines == Split(doc)
    IN  SelectSeq([i \in DOMAIN lines |-> Strip(lines[i])], IsKeyPoint)

\* the number of points kept for one guide
PointsPerGuide == 3

\* a variant without the limit per guide
GuidePoints_Unlimited(doc) == KeyPoints(doc)

\* points[:3]
GuidePoints(doc) == Take(KeyPoints(doc), PointsPerGuide)

\* what one iteration of the loop over matched_guides appends
GuideBlock(g, name) ==
    IF HasGuide(g, name)
    THEN LET pts == GuidePoints(GuideText(g, name))
         IN  <<Header(name)>> \o [i \in DOMAIN pts |-> Point(pts[i])]
    ELSE <<>>

RECURSIVE Blocks(_, _)
Blocks(g, order) ==
    IF order = <<>> THEN <<>>
    ELSE GuideBlock(g, Head(order)) \o Blocks(g, Tail(order))

\* analyze_content(content, guides), the set matched_guides being iterated in
\* the given order
AnalyzeContent(c, g, order) ==
    (IF KeywordMatches(c) = {} THEN <<Notice>> ELSE <<>>) \o Blocks(g, order)

\* the orders in which iterating over the set S may yield its members
Orders(S) ==
    {o \in [1..Cardinality(S) -> S] : \A i, j \in DOMAIN o : i # j => o[i] # o[j]}

(***************************************************************************)
(* The guides directories and the texts given to the Guideline Matcher.    *)
(***************************************************************************)
\* the number of files of a directory whose files are listed in any order
MaxFiles == 3

DigitSeq == <<"1","2","3","4","5","6","7","8","9">>

\* the lines a generated document ends with
TestLines ==
    { <<"-"," ","a">>,
      <<"*"," ","b">>,
      <<"BULLET"," ","c">>,
      <<"1","."," ","x">>,
      <<"2",")","y">>,
      <<"3",":","z">>,
      <<"1",".">>,
      <<"1","2","."," ","x">>,
      <<"x"," ","y">>,
      <<>>,
      <<" "," ","-"," ","d"," ">>,
      <<"a","."," ","b">>,
      <<"4"," ",".","x">>,
      <<"-">>,
      <<"5">>,
      <<"\t","7",":","q","\r">> }

\* the i-th leading bullet line
BulletLine(i) == <<"-", " ", "p", DigitSeq[i]>>

RECURSIVE JoinLines(_)
\* every line followed by a line break
JoinLines(lines) ==
    IF lines = <<>> THEN <<>> ELSE Head(lines) \o <<"\n">> \o JoinLines(Tail(lines))

\* a document of k bullet lines followed by the line l
Doc(k, l) == JoinLines([i \in 1..k |-> BulletLine(i)] \o <<l>>)

File(name, text, readable) == [name |-> name, text |-> text, readable |-> readable]

NavigationMd == sNavigation \o sDotMd
ActionsMd == sActions \o sDotMd
ActionsMdMd == sActions \o sDotMd \o sDotMd
NotesTxt == <<"n","o","t","e","s",".","t","x","t">>

\* directories that vary the documents
DocListings ==
    LET navs == {File(NavigationMd, Doc(k, l), TRUE) : k \in 0..MaxBullets, l \in TestLines}
        acts == {File(ActionsMd, Doc(0, <<"*"," ","b">>), TRUE),
                 File(ActionsMd, Doc(MaxBullets, <<"1","."," ","x">>), TRUE)}
    IN  {<<n>> : n \in navs} \cup {<<n, a>> : n \in navs, a \in acts}

BasicFiles ==
    { File(NavigationMd, Doc(MaxBullets, <<"-"," ","a">>), TRUE),
      File(NavigationMd, Doc(MaxBullets, <<"-"," ","a">>), FALSE),
      File(ActionsMd, Doc(0, <<"*"," ","b">>), TRUE),
      File(ActionsMd, Doc(0, <<"*"," ","b">>), FALSE),
      File(ActionsMdMd, Doc(1, <<"1","."," ","x">>), TRUE),
      File(NotesTxt, Doc(1, <<"-"," ","a">>), TRUE) }

\* directories that vary the files and the order they are listed in
FileListings ==
    {fs \in UNION {[1..n -> BasicFiles] : n \in 0..MaxFiles} :
        \A i, j \in DOMAIN fs : i # j => fs[i].name # fs[j].name}

Listings == DocListings \cup FileListings

HigInputs ==
    { a \o b :
        a \in { <<>>,
                <<"N","a","v","i","g","a","t","i","o","n","S","t","a","c","k"," ">>,
                <<"T","A","B","V","i","e","w"," ">>,
                <<"x"," ">> },
        b \in { <<>>,
                <<"B","u","t","t","o","n","(">>,
                <<"B","U","T","T","O","N">>,
                <<"b","U","t","T","o","N">>,
                <<"b","u","t","t"," ","o","n">>,
                <<".","o","n","T","a","p","G","e","s","t","u","r","e">>,
                <<"o","n","C","l","i","c","k">> } }

(***************************************************************************)
(* tools/hig-advisor/index.py: main.                                       *)
(***************************************************************************)
Line(kind) == [kind |-> kind, text |-> <<>>]

RECURSIVE JoinNames(_)
\* ', '.join(names)
JoinNames(names) ==
    IF names = <<>> THEN <<>>
    ELSE IF Len(names) = 1 THEN Head(names)
    ELSE Head(names) \o <<",", " ">> \o JoinNames(Tail(names))

InitHig ==
    /\ tool = "hig"
    /\ pc = "start"
    /\ content = <<>>
    /\ issues = <<>>
    /\ warnings = <<>>
    /\ dirExists \in BOOLEAN
    /\ listing \in (IF dirExists THEN Listings ELSE {<<>>})
    /\ guides = <<>>
    /\ matched = {}
    /\ recommendations = <<>>
    /\ stdout = <<>>
    /\ stderr = <<>>
    /\ exitCode = "none"

\* if not os.path.exists(guides_dir): a diagnostic and sys.exit(1)
HigDirMissing ==
    /\ tool = "hig" /\ pc = "start" /\ ~dirExists
    /\ stderr' = Append(stderr, "Error: Guides directory not found")
    /\ exitCode' = 1
    /\ pc' = "exit"
    /\ UNCHANGED <<tool, content, issues, warnings, dirExists, listing, guides,
                   matched, recommendations, stdout>>

\* a variant that goes on when no guide was loaded
HigLoad_NoExit ==
    /\ tool = "hig" /\ pc = "start" /\ dirExists
    /\ LET r == LoadGuides(listing) IN
         /\ guides' = r.guides
         /\ stderr' = stderr \o r.warnings
         /\ pc' = "loaded"
    /\ UNCHANGED <<tool, content, issues, warnings, dirExists, listing, matched,
                   recommendations, stdout, exitCode>>

\* guides = load_guides(guides_dir); if not guides: a diagnostic and sys.exit(1)
HigLoad ==
    /\ tool = "hig" /\ pc = "start" /\ dirExists
    /\ LET r == LoadGuides(listing) IN
         /\ guides' = r.guides
         /\ IF r.guides = <<>>
            THEN /\ stderr' = stderr \o r.warnings \o <<"Warning: No guides found">>
                 /\ exitCode' = 1
                 /\ pc' = "exit"
            ELSE /\ stderr' = stderr \o r.warnings
                 /\ exitCode' = exitCode
                 /\ pc' = "loaded"
    /\ UNCHANGED <<tool, content, issues, warnings, dirExists, listing, matched,
                   recommendations, stdout>>

\* content = f.read()  or  content = sys.stdin.read()
HigReadInput ==
    /\ tool = "hig" /\ pc = "loaded"
    /\ \E c \in HigInputs : content' = c
    /\ pc' = "read"
    /\ UNCHANGED <<tool, issues, warnings, dirExists, listing, guides, matched,
                   recommendations, stdout, stderr, exitCode>>

\* the named file cannot be read: a diagnostic and sys.exit(1)
HigReadError ==
    /\ tool = "hig" /\ pc = "loaded"
    /\ stderr' = Append(stderr, "Error reading file")
    /\ exitCode' = 1
    /\ pc' = "exit"
    /\ UNCHANGED <<tool, content, issues, warnings, dirExists, listing, guides,
                   matched, recommendations, stdout>>

\* the banner, then recommendations = analyze_content(content, guides)
HigAnalyze ==
    /\ tool = "hig" /\ pc = "read"
    /\ stdout' = stdout \o <<Line("banner"), Line("rule")>>
    /\ matched' = MatchedGuides(content)
    /\ \E order \in Orders(MatchedGuides(content)) :
          recommendations' = AnalyzeContent(content, guides, order)
    /\ pc' = "analyzed"
    /\ UNCHANGED <<tool, content, issues, warnings, dirExists, listing, guides,
                   stderr, exitCode>>

\* the number of recommendations printed
RenderLimit == 5

\* recommendations[:5], or the line that says there are none
Rendered(recs) ==
    IF recs # <<>> THEN Take(recs, RenderLimit) ELSE <<Line("no recommendations")>>

\* the recommendations, the closing rule and the names of the loaded guides
HigRender ==
    /\ tool = "hig" /\ pc = "analyzed"
    /\ stdout' = stdout \o Rendered(recommendations)
                   \o <<Line("rule"),
                        [kind |-> "loaded",
                         text |-> JoinNames([i \in DOMAIN guides |-> guides[i].name])]>>
    /\ exitCode' = 0
    /\ pc' = "exit"
    /\ UNCHANGED <<tool, content, issues, warnings, dirExists, listing, guides,
                   matched, recommendations, stderr>>

NextHig ==
    HigDirMissing \/ HigLoad \/ HigReadInput \/ HigReadError \/ HigAnalyze \/ HigRender

SpecHig == InitHig /\ [][NextHig]_vars

(***************************************************************************)
(* Properties of the Accessibility Classifier.                             *)
(***************************************************************************)
\* check_accessibility has returned
A11yChecked == tool = "a11y" /\ (pc = "checked" \/ (pc = "exit" /\ exitCode = 0))

\* the number of times x occurs in list
Count(list, x) == Cardinality({i \in DOMAIN list : list[i] = x})

\* an image construct: Image, optional whitespace, an opening parenthesis
ImageConstruct(c) == Search(c, <<Lit(sImage), WsStar, Lit(sParen)>>)

\* a label construct: .accessibilityLabel(  or  .accessibility(label:
LabelConstruct(c) ==
    \/ Search(c, <<Lit(sDotAccessibilityLabel), WsStar, Lit(sParen)>>)
    \/ Search(c, <<Lit(sDotAccessibility), WsStar, Lit(sParen), WsStar, Lit(sLabelColon)>>)

\* C5: a text with an image construct and no label construct gets exactly one
\* "unlabeled images" Issue; a text with an image construct and a label
\* construct anywhere gets none.
C5_UnlabeledImages ==
    A11yChecked /\ ImageConstruct(content) =>
        Count(issues, UnlabeledImages) = (IF LabelConstruct(content) THEN 0 ELSE 1)

\* two image constructs, no label construct, and the Issue was emitted
C5_Witness ==
    /\ A11yChecked
    /\ Len(FindAll(content, image_pattern)) = 2
    /\ ~LabelConstruct(content)
    /\ Count(issues, UnlabeledImages) = 1

\* a Text( construct or a Label( construct, each at a word boundary
TextOrLabelConstruct(c) ==
    \/ Search(c, <<WordB, Lit(sText), WsStar, Lit(sParen)>>)
    \/ Search(c, <<WordB, Lit(sLabel), WsStar, Lit(sParen)>>)

\* C6: for a text with neither a Text( nor a Label( construct, the "no textual
\* content" Issue is emitted if and only if the text is longer than 100.
C6_LengthBoundary ==
    A11yChecked /\ ~TextOrLabelConstruct(content) =>
        ((Count(issues, NoTextualContent) > 0) <=> (Len(content) > 100))

\* a text of length 101 with neither construct, and the Issue was emitted
C6_Witness ==
    /\ A11yChecked
    /\ Len(content) = 101
    /\ ~TextOrLabelConstruct(content)
    /\ Count(issues, NoTextualContent) = 1

\* the checks that trigger on c, each decided on its own
Triggered(c) ==
    (IF ImageConstruct(c) /\ ~LabelConstruct(c) THEN {UnlabeledImages} ELSE {})
    \cup (IF Search(c, button_pattern) /\ ~HasAccessibility(c)
          THEN {UnlabeledButtons} ELSE {})
    \cup (IF ~TextOrLabelConstruct(c) /\ Len(c) > 100 THEN {NoTextualContent} ELSE {})
    \cup (IF HasGesture(c) /\ ~HasAccessibilityAction(c)
          THEN {InaccessibleGestures} ELSE {})
    \cup (IF HasColorIndicator(c) /\ ~HasShapesOrIcons(c) THEN {ColorOnlyRisk} ELSE {})

\* the members of order that are in S, in order
Restrict(order, S) == SelectSeq(order, LAMBDA f : f \in S)

\* C8: the Issue list is the triggered checks among [1, 3] in that order and
\* the Warning list the triggered checks among [2, 4, 5] in that order: no
\* check is reordered, duplicated or suppressed by another.
C8_FixedOrder ==
    A11yChecked =>
        /\ issues = Restrict(<<UnlabeledImages, NoTextualContent>>, Triggered(content))
        /\ warnings = Restrict(<<UnlabeledButtons, InaccessibleGestures, ColorOnlyRisk>>,
                               Triggered(content))

\* all five checks trigger on one text
C8_Witness ==
    /\ A11yChecked
    /\ issues = <<UnlabeledImages, NoTextualContent>>
    /\ warnings = <<UnlabeledButtons, InaccessibleGestures, ColorOnlyRisk>>

(***************************************************************************)
(* Properties of the Guideline Matcher.                                    *)
(***************************************************************************)
\* analyze_content has returned
HigAnalyzed == tool = "hig" /\ (pc = "analyzed" \/ (pc = "exit" /\ exitCode = 0))

RECURSIVE PointsAfter(_, _)
\* the number of point entries that follow entry i of recs without a break
PointsAfter(recs, i) ==
    IF i < Len(recs) /\ recs[i + 1].kind = "point"
    THEN 1 + PointsAfter(recs, i + 1) ELSE 0

\* the entries of the output that are recommendation entries
RenderedEntries(out) ==
    SelectSeq(out, LAMBDA e : e.kind \in {"notice", "header", "point"})

\* C1: no document contributes more than 3 advisory lines, and no more than 5
\* recommendation entries are rendered.
C1_Limits ==
    HigAnalyzed =>
        /\ \A i \in DOMAIN recommendations :
              recommendations[i].kind = "header" => PointsAfter(recommendations, i) <= 3
        /\ Len(RenderedEntries(stdout)) <= 5

\* both documents hold more than 3 advisory lines, 9 entries were assembled
\* and 5 were rendered
C1_Witness ==
    /\ HigAnalyzed /\ pc = "exit"
    /\ Len(guides) = 2
    /\ \A i \in DOMAIN guides : Len(KeyPoints(guides[i].text)) > 3
    /\ Len(recommendations) = 9
    /\ Len(RenderedEntries(stdout)) = 5

\* the trimmed line starts with -, * or the bullet, or with a digit that is
\* immediately followed by one of . ) :
IsAdvisoryLine(stripped) ==
    \/ Len(stripped) >= 1 /\ stripped[1] \in {"-", "*", "BULLET"}
    \/ Len(stripped) >= 2 /\ stripped[1] \in DigitChars /\ stripped[2] \in {".", ")", ":"}

\* the first 3 advisory lines of doc, trimmed, in document order
AdvisoryLines(doc) ==
    LET lines == Split(doc)
    IN  Take(SelectSeq([i \in DOMAIN lines |-> Strip(lines[i])], IsAdvisoryLine), 3)

\* C2: the point entries that follow a document's header are the first 3 of
\* its lines that, trimmed, start with -, * or the bullet, or with a digit
\* immediately followed by . ) or : (a line that is only the marker included).
C2_KeptIffMarked ==
    HigAnalyzed =>
        \A i \in DOMAIN recommendations :
            recommendations[i].kind = "header" =>
                LET adv == AdvisoryLines(GuideText(guides, recommendations[i].text))
                IN  /\ PointsAfter(recommendations, i) = Len(adv)
                    /\ \A j \in DOMAIN adv : recommendations[i + j].text = adv[j]

\* the fixed topic keywords
NavigationKeywords == {sNavigation, sNavigationlink, sNavigationstack, sTabview}
TopicKeywords == NavigationKeywords \cup {sButtonLower, sAction, sTap, sGesture, sOnclick}

\* w occurs in c, in any letter case
ContainsAnyCase(c, w) ==
    \E i \in 1..(Len(c) + 1 - Len(w)) : \A j \in 1..Len(w) : LowerChar(c[i + j - 1]) = w[j]

\* C3: a text with none of the topic keywords matches both topics and gets the
\* general-advice notice as its first entry; the matched set is never empty.
C3_GeneralPack ==
    HigAnalyzed =>
        /\ matched # {}
        /\ (\A k \in TopicKeywords : ~ContainsAnyCase(content, k)) =>
              /\ matched = {sNavigation, sActions}
              /\ recommendations # <<>>
              /\ recommendations[1] = Notice

\* a non-empty text without keywords, the notice first and a header after it
C3_Witness ==
    /\ HigAnalyzed
    /\ content # <<>>
    /\ \A k \in TopicKeywords : ~ContainsAnyCase(content, k)
    /\ Len(recommendations) > 1
    /\ recommendations[1] = Notice

\* C4: a text that holds "button" in any letter case and no navigation
\* keyword matches the actions topic alone and gets no notice.
C4_ButtonOnly ==
    HigAnalyzed /\ ContainsAnyCase(content, sButtonLower)
        /\ (\A k \in NavigationKeywords : ~ContainsAnyCase(content, k)) =>
            /\ matched = {sActions}
            /\ \A i \in DOMAIN recommendations : recommendations[i] # Notice

\* "button" occurs but not in lower case, and the actions guide was reported
C4_Witness ==
    /\ HigAnalyzed
    /\ ContainsAnyCase(content, sButtonLower)
    /\ ~Contains(content, sButtonLower)
    /\ matched = {sActions}
    /\ Len(recommendations) > 1

\* the last diagnostic printed
LastDiagnostic == IF stderr = <<>> THEN "none" ELSE stderr[Len(stderr)]

\* C7: without a guides directory, or without any loaded document, the run
\* ends with exit code 1 after a diagnostic, prints nothing and reads no
\* input; with a document loaded, only an unreadable input gives exit code 1.
C7_FatalGuides ==
    tool = "hig" /\ pc = "exit" =>
        /\ (~dirExists \/ guides = <<>>) =>
              /\ exitCode = 1
              /\ LastDiagnostic \in {"Error: Guides directory not found",
                                     "Warning: No guides found"}
              /\ stdout = <<>>
              /\ content = <<>>
        /\ (dirExists /\ guides # <<>> /\ exitCode = 1) =>
              LastDiagnostic = "Error reading file"

\* the directory exists, its only documents are unreadable, and the run
\* ended with exit code 1
C7_Witness ==
    /\ tool = "hig" /\ pc = "exit"
    /\ dirExists
    /\ \E i \in DOMAIN listing : ~listing[i].readable
    /\ guides = <<>>
    /\ exitCode = 1

\* C9: the recommendations are the same whatever order the matched topics are
\* iterated in.
C9_OrderInsensitive ==
    HigAnalyzed =>
        \A o \in Orders(matched) : AnalyzeContent(content, guides, o) = recommendations

\* the file name without its trailing .md
BaseName(filename) == SubSeq(filename, 1, Len(filename) - 3)

=============================================================================
